---- MODULE Spec2Model ----
(***************************************************************************)
(* A model of kplr's gateways (kplr/api.py: API, kplr/offline.py:          *)
(* OfflineAPI), of the records they build (Model, KOI, Planet, Star,       *)
(* LightCurve, TargetPixelFile) and of the field normalizer                *)
(* API._munge_dict.                                                        *)
(*                                                                         *)
(* Python values are tagged records, so that the integer 1, the float 1.0, *)
(* the string "1" and None are four different values.  A string is the     *)
(* sequence of its characters; a float is the decimal fraction n/d with d  *)
(* a power of ten and no common factor ten.                                *)
(***************************************************************************)
EXTENDS Integers, Sequences, FiniteSets, TLC

VARIABLES
    apis,      \* the two gateways: data_root and, on OfflineAPI, _tables
    disk,      \* the files that exist on the local file system
    dirs,      \* the directories that exist below the data roots
    records,   \* the records the caller holds, in order of construction
    last,      \* the call that was made last and what it did
    munge      \* the row being normalized (specification SpecMunge)

vars == <<apis, disk, dirs, records, last, munge>>

----------------------------------------------------------------------------
(* Bounds of the model.                                                    *)

MaxStrLen == 3        \* longest raw string handed to the normalizer
MaxPasses == 2        \* how often one row is passed through _munge_dict

----------------------------------------------------------------------------
(* Python values.                                                          *)

None == [t |-> "none"]
IntV(i) == [t |-> "int", n |-> i]
FloatV(num, den) == [t |-> "float", n |-> num, d |-> den]
StrV(s) == [t |-> "str", s |-> s]

\* F of the value v, which is computed once however often F reads it.
Let(v, F(_)) == F(v)

Ok(v) == [exc |-> "", val |-> v]
Raise(e) == [exc |-> e, val |-> None]

DigitChars == <<"0", "1", "2", "3", "4", "5", "6", "7", "8", "9">>
IsDigit(c) == \E i \in 1..10 : DigitChars[i] = c
DigitVal(c) == (CHOOSE i \in 1..10 : DigitChars[i] = c) - 1

RECURSIVE DigitsValue(_)
DigitsValue(s) ==
    IF s = <<>> THEN 0
    ELSE 10 * DigitsValue(SubSeq(s, 1, Len(s) - 1)) + DigitVal(s[Len(s)])

RECURSIVE Pow10(_)
Pow10(k) == IF k = 0 THEN 1 ELSE 10 * Pow10(k - 1)

Signed(s) == Len(s) > 0 /\ s[1] \in {"-", "+"}
Sign(s) == IF Len(s) > 0 /\ s[1] = "-" THEN -1 ELSE 1
Unsigned(s) == IF Signed(s) THEN Tail(s) ELSE s

\* int("..."): an optional sign and one or more decimal digits.
IsIntLiteral(s) ==
    LET b == Unsigned(s)
    IN  Len(b) > 0 /\ \A i \in 1..Len(b) : IsDigit(b[i])

\* float("..."): an optional sign, digits with at most one point, and at
\* least one digit.  (Exponents, "inf" and "nan" need letters that the raw
\* strings of this model do not hold.)
Dots(b) == {i \in 1..Len(b) : b[i] = "."}
IsFloatLiteral(s) ==
    LET b == Unsigned(s)
    IN  /\ Cardinality(Dots(b)) <= 1
        /\ \A i \in 1..Len(b) : IsDigit(b[i]) \/ b[i] = "."
        /\ \E i \in 1..Len(b) : IsDigit(b[i])

RECURSIVE Reduce(_, _)
Reduce(num, den) ==
    IF den > 1 /\ num % 10 = 0 THEN Reduce(num \div 10, den \div 10)
    ELSE FloatV(num, den)

FloatLiteral(s) ==
    LET b == Unsigned(s)
        digits == SelectSeq(b, IsDigit)
        places == IF Dots(b) = {} THEN 0
                  ELSE Len(b) - (CHOOSE i \in Dots(b) : TRUE)
    IN  Reduce(Sign(s) * DigitsValue(digits), Pow10(places))

\* int(x) on a float truncates towards zero.
Truncate(num, den) ==
    IF num >= 0 THEN num \div den ELSE -((-num) \div den)

\* int(v), api.py:129.  None is a TypeError, which is no ValueError.
py_int(v) ==
    CASE v.t = "int" -> Ok(v)
      [] v.t = "float" -> Ok(IntV(Truncate(v.n, v.d)))
      [] v.t = "str" -> IF IsIntLiteral(v.s)
                        THEN Ok(IntV(Sign(v.s) * DigitsValue(Unsigned(v.s))))
                        ELSE Raise("ValueError")
      [] OTHER -> Raise("TypeError")

\* float(v), api.py:132.
py_float(v) ==
    CASE v.t = "int" -> Ok(FloatV(v.n, 1))
      [] v.t = "float" -> Ok(v)
      [] v.t = "str" -> IF IsFloatLiteral(v.s) THEN Ok(FloatLiteral(v.s))
                        ELSE Raise("ValueError")
      [] OTHER -> Raise("TypeError")

\* The body of the loop of _munge_dict for one value (api.py:127-138):
\* the inner try (float, or else the value), the outer try (int, or else
\* the inner), and the test for the empty string.
try_float(v) ==
    Let(py_float(v), LAMBDA f : IF f.exc = "ValueError" THEN Ok(v) ELSE f)
try_int(v) ==
    Let(py_int(v), LAMBDA i : IF i.exc = "ValueError" THEN try_float(v) ELSE i)
munge_value(v) ==
    Let(try_int(v), LAMBDA tmp : IF tmp.exc # "" THEN tmp
                                 ELSE IF v = StrV(<<>>) THEN Ok(None)
                                 ELSE tmp)

\* API._munge_dict: every value of the row, or the first exception.
_munge_dict(row) ==
    Let([k \in DOMAIN row |-> munge_value(row[k])], LAMBDA out :
        IF \E k \in DOMAIN row : out[k].exc # ""
        THEN Raise(out[CHOOSE k \in DOMAIN row : out[k].exc # ""].exc)
        ELSE Ok([k \in DOMAIN row |-> out[k].val]))

----------------------------------------------------------------------------
(* String literals of the program and of the data of the model.  The      *)
(* names of fields are only ever compared as wholes: f_ are the names of   *)
(* columns and attributes, j_ the names of the fields of MAST's JSON       *)
(* objects.  Every other string (s_) is the sequence of its characters.    *)

f_kepoi_name == "kepoi_name"
f_kepid == "kepid"
f_kic_kepler_id == "kic_kepler_id"
f_kepler_name == "kepler_name"
f_koi_number == "koi_number"
f_sci_data_set_name == "sci_data_set_name"
f_ktc_target_type == "ktc_target_type"
f_ktc_kepler_id == "ktc_kepler_id"
f_koi_comment == "koi_comment"
f_teff == "teff"
j_kepler_id == "Kepler ID"
j_kepler_name == "Kepler Name"
j_koi_number == "KOI Number"
j_dataset_name == "Dataset Name"
j_target_type == "Target Type"
s_K00001_01 == <<"K", "0", "0", "0", "0", "1", ".", "0", "1">>
s_K00001_02 == <<"K", "0", "0", "0", "0", "1", ".", "0", "2">>
s_1 == <<"1">>
s_empty == <<>>
s_ERROR == <<"E", "R", "R", "O", "R">>
s_INTERNAL_ERROR ==
    <<"I", "N", "T", "E", "R", "N", "A", "L", " ", "E", "R", "R", "O", "R">>
s_None == <<"N", "o", "n", "e">>
s_LC == <<"L", "C">>
s_SC == <<"S", "C">>
s_llc == <<"l", "l", "c">>
s_slc == <<"s", "l", "c">>
s_lpd_targ == <<"l", "p", "d", "-", "t", "a", "r", "g">>
s_spd_targ == <<"s", "p", "d", "-", "t", "a", "r", "g">>
s_fits == <<".", "f", "i", "t", "s">>
s_fits_gz == <<".", "f", "i", "t", "s", ".", "g", "z">>
s_lightcurves == <<"l", "i", "g", "h", "t", "c", "u", "r", "v", "e", "s">>
s_target_pixel_files ==
    <<"t", "a", "r", "g", "e", "t", "_", "p", "i", "x", "e", "l", "_", "f",
      "i", "l", "e", "s">>
s_data == <<"d", "a", "t", "a">>
s_tables == <<"t", "a", "b", "l", "e", "s">>
s_csv == <<".", "c", "s", "v">>
s_kplr == <<"k", "p", "l", "r">>
s_KPLR1_Q1 == <<"K", "P", "L", "R", "1", "-", "Q", "1">>
s_KPLR1_Q2 == <<"K", "P", "L", "R", "1", "-", "Q", "2">>
s_kplr1_q1_llc_fits ==
    <<"k", "p", "l", "r", "1", "-", "q", "1", "_", "l", "l", "c", ".", "f",
      "i", "t", "s">>
s_readme_llc_fits ==
    <<"n", "o", "t", "e", "s", "_", "l", "l", "c", ".", "f", "i", "t", "s">>
s_Kepler_1b == <<"K", "e", "p", "l", "e", "r", "-", "1", "b">>
s_1_b == <<"1", " ", "b">>
s_bogus == <<"b", "o", "g", "u", "s">>
s_Kepler_1_b == <<"K", "e", "p", "l", "e", "r", "-", "1", " ", "b">>
s_home_kplr == <<"~", "/", ".", "k", "p", "l", "r">>
s_mnt_other == <<"/", "m", "n", "t", "/", "o", "t", "h", "e", "r">>
s_base_url ==
    <<"h", "t", "t", "p", ":", "/", "/", "a", "r", "c", "h", "i", "v", "e",
      ".", "s", "t", "s", "c", "i", ".", "e", "d", "u", "/", "p", "u", "b",
      "/", "k", "e", "p", "l", "e", "r">>
s_cumulative == <<"c", "u", "m", "u", "l", "a", "t", "i", "v", "e">>
s_stellar ==
    <<"q", "1", "_", "q", "1", "7", "_", "d", "r", "2", "5", "_", "s", "t",
      "e", "l", "l", "a", "r">>

\* The columns of the Exoplanet Archive's CSV, as they are spelled in the
\* header line of a response.
Spelling ==
    (f_kepoi_name :> <<"k", "e", "p", "o", "i", "_", "n", "a", "m", "e">>)
        @@ (f_kepid :> <<"k", "e", "p", "i", "d">>)
        @@ (f_koi_comment :>
              <<"k", "o", "i", "_", "c", "o", "m", "m", "e", "n", "t">>)
\* The column a header cell names ("" for a cell that spells none).
Column(cell) ==
    IF \E n \in DOMAIN Spelling : Spelling[n] = cell
    THEN CHOOSE n \in DOMAIN Spelling : Spelling[n] = cell
    ELSE ""

UpperChars ==
    <<"A", "B", "C", "D", "E", "F", "G", "H", "I", "J", "K", "L", "M", "N",
      "O", "P", "Q", "R", "S", "T", "U", "V", "W", "X", "Y", "Z">>
LowerChars ==
    <<"a", "b", "c", "d", "e", "f", "g", "h", "i", "j", "k", "l", "m", "n",
      "o", "p", "q", "r", "s", "t", "u", "v", "w", "x", "y", "z">>
IsUpper(c) == \E i \in 1..26 : UpperChars[i] = c
IsLetter(c) == IsUpper(c) \/ \E i \in 1..26 : LowerChars[i] = c
LowerChar(c) ==
    IF IsUpper(c) THEN LowerChars[CHOOSE i \in 1..26 : UpperChars[i] = c]
    ELSE c

\* str.lower()
Lower(s) == [i \in 1..Len(s) |-> LowerChar(s[i])]

\* needle in s
Contains(s, needle) ==
    \E i \in 1..(Len(s) - Len(needle) + 1) :
        SubSeq(s, i, i + Len(needle) - 1) = needle

\* "{0:d}".format(n)
RECURSIVE DecStr(_)
DecStr(n) ==
    IF n < 0 THEN <<"-">> \o DecStr(-n)
    ELSE IF n < 10 THEN <<DigitChars[n + 1]>>
    ELSE Append(DecStr(n \div 10), DigitChars[(n % 10) + 1])

\* "{0:0wd}".format(n): zeros on the left up to width w.
RECURSIVE ZeroPad(_, _)
ZeroPad(s, w) == IF Len(s) >= w THEN s ELSE ZeroPad(<<"0">> \o s, w)
Pad(n, w) ==
    IF n < 0 THEN <<"-">> \o ZeroPad(DecStr(-n), w - 1)
    ELSE ZeroPad(DecStr(n), w)

\* The number of decimal places of the denominator 10^k.
RECURSIVE Places(_)
Places(den) == IF den <= 1 THEN 0 ELSE 1 + Places(den \div 10)

\* str(v), which "{0}".format(v) writes.
PyStr(v) ==
    CASE v.t = "str" -> v.s
      [] v.t = "int" -> DecStr(v.n)
      [] v.t = "float" ->
            LET a == IF v.n < 0 THEN -v.n ELSE v.n
                neg == IF v.n < 0 THEN <<"-">> ELSE <<>>
            IN  neg \o DecStr(a \div v.d) \o <<".">>
                    \o (IF v.d = 1 THEN <<"0">>
                        ELSE ZeroPad(DecStr(a % v.d), Places(v.d)))
      [] OTHER -> s_None

----------------------------------------------------------------------------
(* Specification SpecMunge: a row of raw values is normalized, and the     *)
(* normalized row is normalized again.                                     *)

RawChars == {"1", "5", ".", "a"}

RECURSIVE StringsUpTo(_)
StringsUpTo(k) ==
    IF k = 0 THEN {<<>>}
    ELSE LET shorter == StringsUpTo(k - 1)
         IN  shorter \cup {Append(s, c) : s \in shorter, c \in RawChars}

\* What a response hands to the normalizer: the cells of a CSV line are
\* strings (api.py:71); the members of a JSON object are strings, numbers
\* or null (api.py:104-108).
RawValues ==
    {StrV(s) : s \in StringsUpTo(MaxStrLen)}
        \cup {None, IntV(5), FloatV(15, 10), FloatV(1, 1)}

\* The rows: one field of any raw value beside one of a few.
SecondValues == {StrV(<<"1">>), StrV(<<>>), StrV(<<"a">>)}
RawRows ==
    {(f_kepid :> a) @@ (f_kepoi_name :> b) :
        a \in RawValues, b \in SecondValues}

MungeIdle == [row |-> << >>, prev |-> << >>, passes |-> 0, exc |-> ""]

----------------------------------------------------------------------------
(* Helpers on sequences and paths.                                         *)

Min(a, b) == IF a <= b THEN a ELSE b
Range(s) == {s[i] : i \in 1..Len(s)}

\* The results of a comprehension [f(x) for x in ...]: every value, or the
\* exception of the first element that raised.
Collect(rs) ==
    IF \E i \in 1..Len(rs) : rs[i].exc # ""
    THEN [exc |-> rs[CHOOSE i \in 1..Len(rs) :
                       /\ rs[i].exc # ""
                       /\ \A j \in 1..(i - 1) : rs[j].exc = ""].exc,
          val |-> <<>>]
    ELSE [exc |-> "", val |-> [i \in 1..Len(rs) |-> rs[i].val]]

RaiseL(e) == [exc |-> e, val |-> <<>>]

\* os.path.join of components none of which is absolute but the first.
RECURSIVE path_join(_)
path_join(parts) ==
    IF Len(parts) = 1 THEN parts[1]
    ELSE path_join(SubSeq(parts, 1, Len(parts) - 1))
            \o <<"/">> \o parts[Len(parts)]

Slashes(p) == {i \in 1..Len(p) : p[i] = "/"}
LastSlash(p) == CHOOSE i \in Slashes(p) : \A j \in Slashes(p) : j <= i
dirname(p) == IF Slashes(p) = {} THEN <<>> ELSE SubSeq(p, 1, LastSlash(p) - 1)
basename(p) == IF Slashes(p) = {} THEN p ELSE SubSeq(p, LastSlash(p) + 1, Len(p))

EndsWith(s, tail) ==
    Len(s) >= Len(tail) /\ SubSeq(s, Len(s) - Len(tail) + 1, Len(s)) = tail

\* a == b on Python values: numbers by value, strings by content.
PyEq(a, b) ==
    IF a.t \in {"int", "float"} /\ b.t \in {"int", "float"}
    THEN LET da == IF a.t = "int" THEN 1 ELSE a.d
             db == IF b.t = "int" THEN 1 ELSE b.d
         IN  a.n * db = b.n * da
    ELSE a = b

\* "{0:0W.2f}".format(v): two decimals, zeros on the left up to width w.
\* A value that is no number has no format code "f".
Hundredths(v) ==
    IF v.t = "int" THEN 100 * v.n
    ELSE IF v.d <= 100 THEN v.n * (100 \div v.d)
    ELSE (v.n + (v.d \div 200)) \div (v.d \div 100)
Fixed2(v, w) ==
    LET h == Hundredths(v)
    IN  Pad(h \div 100, w - 3) \o <<".">> \o Pad(h % 100, 2)

\* "{:.0f}".format(v)
Fixed0(v) ==
    IF v.t = "int" THEN DecStr(v.n) ELSE DecStr((2 * v.n + v.d) \div (2 * v.d))

IsNumber(v) == v.t \in {"int", "float"}

----------------------------------------------------------------------------
(* The two gateways.                                                       *)

\* The gateway of a run: API() or OfflineAPI().
Gateways == {"remote", "offline"}
GatewayClass(g) == IF g = "remote" THEN "API" ELSE "OfflineAPI"

\* config.KPLR_ROOT
KPLR_ROOT == s_home_kplr

\* The data_root argument of the constructor: None, or a directory.
RootArgs == {None, StrV(s_mnt_other)}

NoTables == [has |-> FALSE, items |-> << >>]

\* API.__init__
API__init__(cls, data_root) ==
    [cls |-> cls,
     data_root |-> IF data_root = None THEN KPLR_ROOT ELSE data_root.s,
     _tables |-> NoTables]

----------------------------------------------------------------------------
(* The Exoplanet Archive: API.ea_request.  A response is the status code   *)
(* and the body; the body is held as its lines (txt.splitlines()) and each *)
(* line as its cells (line.split(",")).                                    *)

EAHeader == <<Spelling[f_kepoi_name], Spelling[f_kepid]>>
EAResponses ==
    { [code |-> 503, txt |-> << >>],
      [code |-> 200, txt |-> << <<s_ERROR>> >>],
      [code |-> 200, txt |-> <<EAHeader>>],
      [code |-> 200, txt |-> <<EAHeader, <<s_K00001_01, s_1>> >>],
      [code |-> 200, txt |-> <<EAHeader, <<s_K00001_01, s_1>>,
                               <<s_K00001_02, s_1>> >>],
      [code |-> 200, txt |-> <<EAHeader, <<s_empty, s_1>> >>],
      [code |-> 200, txt |-> << <<Spelling[f_kepid]>>, <<s_1>> >>],
      [code |-> 200, txt |-> << <<Spelling[f_kepoi_name], Spelling[f_kepid],
                                  Spelling[f_koi_comment]>>,
                                <<s_K00001_01, s_1, s_INTERNAL_ERROR>> >>] }

\* "ERROR" in txt: the marker holds no comma and no line end, so it is in
\* the text exactly when it is in one of the cells.
HasMarker(txt) ==
    \E i \in 1..Len(txt) : \E j \in 1..Len(txt[i]) :
        Contains(txt[i][j], s_ERROR)

\* dict(zip(columns, cells)): as long as the shorter of the two; a column
\* named twice keeps its last cell.
ZipDict(columns, cells) ==
    LET n == Min(Len(columns), Len(cells))
    IN  [k \in {Column(columns[i]) : i \in 1..n} |->
            StrV(cells[CHOOSE i \in 1..n :
                        /\ Column(columns[i]) = k
                        /\ \A j \in 1..n : Column(columns[j]) = k => j <= i])]

\* ea_request without the test "ERROR" in txt (for comparison).
ea_request_unmarked(resp) ==
    IF resp.code # 200 THEN RaiseL("RuntimeError")
    ELSE IF Len(resp.txt) = 0 THEN RaiseL("IndexError")
    ELSE LET csv == resp.txt
             columns == csv[1]
             result(i) == ZipDict(columns, csv[i + 1])
         IN  Collect([i \in 1..(Len(csv) - 1) |-> _munge_dict(result(i))])

ea_request(resp) ==
    IF resp.code # 200 THEN RaiseL("RuntimeError")
    ELSE IF HasMarker(resp.txt) THEN RaiseL("RuntimeError")
    ELSE IF Len(resp.txt) = 0 THEN RaiseL("IndexError")
    ELSE LET csv == resp.txt
             columns == csv[1]
             result(i) == ZipDict(columns, csv[i + 1])
         IN  Collect([i \in 1..(Len(csv) - 1) |-> _munge_dict(result(i))])

----------------------------------------------------------------------------
(* MAST: API.mast_request.  A response is the status code and the body,    *)
(* held as the list of objects json.loads makes of it.                     *)

\* kplr/mast.py is not among the sources: an adapter gives the fields of
\* a MAST object the names the records use.
AdapterFields(adapter) ==
    CASE adapter = "star_adapter" -> {<<j_kepler_id, f_kic_kepler_id>>}
      [] adapter = "planet_adapter" ->
            {<<j_kepler_id, f_kepid>>, <<j_kepler_name, f_kepler_name>>,
             <<j_koi_number, f_koi_number>>}
      [] adapter = "dataset_adapter" ->
            {<<j_kepler_id, f_ktc_kepler_id>>,
             <<j_dataset_name, f_sci_data_set_name>>,
             <<j_target_type, f_ktc_target_type>>}
      [] OTHER -> {}

Adapt(adapter, row) ==
    LET known == {p \in AdapterFields(adapter) : p[1] \in DOMAIN row}
    IN  [k \in {p[2] : p \in known} |->
            row[(CHOOSE p \in known : p[2] = k)[1]]]

JStar == (j_kepler_id :> IntV(1))
JPlanet ==
    (j_kepler_id :> IntV(1)) @@ (j_kepler_name :> StrV(s_Kepler_1_b))
        @@ (j_koi_number :> FloatV(101, 100))
JLong ==
    (j_kepler_id :> IntV(1)) @@ (j_dataset_name :> StrV(s_KPLR1_Q1))
        @@ (j_target_type :> StrV(s_LC))
JShort ==
    (j_kepler_id :> IntV(1)) @@ (j_dataset_name :> StrV(s_KPLR1_Q2))
        @@ (j_target_type :> StrV(s_SC))

\* What MAST answers, by category.  A data search for long cadence only
\* (ktc_target_type="LC") is answered with the long cadence rows.
MASTResponses(category, long_only) ==
    LET fail == [code |-> 503, json |-> << >>]
        ok(rows) == [code |-> 200, json |-> rows]
    IN  CASE category = "kic10" -> {fail, ok(<< >>), ok(<<JStar>>)}
          [] category = "confirmed_planets" ->
                {fail, ok(<< >>), ok(<<JPlanet>>)}
          [] category = "data_search" ->
                IF long_only THEN {fail, ok(<< >>), ok(<<JLong>>)}
                ELSE {fail, ok(<< >>), ok(<<JLong>>), ok(<<JLong, JShort>>)}
          [] OTHER -> {fail}

mast_request(adapter, resp) ==
    IF resp.code # 200 THEN RaiseL("RuntimeError")
    ELSE LET result == resp.json
         IN  IF adapter = "None"
             THEN Collect([i \in 1..Len(result) |-> _munge_dict(result[i])])
             ELSE [exc |-> "",
                   val |-> [i \in 1..Len(result) |-> Adapt(adapter, result[i])]]

----------------------------------------------------------------------------
(* The records: Model and its subclasses.  A record holds the gateway that *)
(* made it (api), the fields of its row (params, set as attributes by      *)
(* Model.__init__) and what its own __init__ adds.                         *)

DataFiles == {"LightCurve", "TargetPixelFile"}

\* The fields the _id template of the class names.
IdFields(cls) ==
    CASE cls = "KOI" -> {f_kepoi_name}
      [] cls = "Planet" -> {f_kepler_name}
      [] cls = "Star" -> {f_kic_kepler_id}
      [] OTHER -> {f_sci_data_set_name, f_ktc_target_type}

\* self._id.format of the fields of params
FormatId(cls, params) ==
    CASE cls = "KOI" -> <<"\"">> \o PyStr(params[f_kepoi_name]) \o <<"\"">>
      [] cls = "Planet" -> <<"\"">> \o PyStr(params[f_kepler_name]) \o <<"\"">>
      [] cls = "Star" -> PyStr(params[f_kic_kepler_id])
      [] OTHER -> <<"\"">> \o PyStr(params[f_sci_data_set_name]) \o <<"_">>
                    \o PyStr(params[f_ktc_target_type]) \o <<"\"">>

NoObject == [cls |-> "None"]

\* Model.__init__: a field of the template that the row lacks is a
\* KeyError of str.format.
Model__init__(cls, api, params) ==
    IF IdFields(cls) \subseteq DOMAIN params
    THEN Ok([cls |-> cls, api |-> api, params |-> params,
             _name |-> FormatId(cls, params)])
    ELSE [exc |-> "KeyError", val |-> NoObject]

\* A slot for related records: None until it is resolved.
Unresolved == [set |-> FALSE, refs |-> << >>]
Resolved(refs) == [set |-> TRUE, refs |-> refs]

KOI__init__(api, params) ==
    Let(Model__init__("KOI", api, params), LAMBDA m :
        IF m.exc # "" THEN m
        ELSE Ok([cls |-> "KOI", api |-> api, params |-> params,
                 _name |-> m.val._name, _star |-> Unresolved]))

Planet__init__(api, params) ==
    Let(Model__init__("Planet", api, params), LAMBDA m :
        IF m.exc # "" THEN m
        ELSE Ok([cls |-> "Planet", api |-> api, params |-> params,
                 _name |-> m.val._name, _koi |-> Unresolved,
                 _star |-> Unresolved]))

Star__init__(api, params) ==
    Let(Model__init__("Star", api, params), LAMBDA m :
        IF m.exc # "" THEN m
        ELSE Ok([cls |-> "Star", api |-> api, params |-> params,
                 _name |-> m.val._name, kepid |-> params[f_kic_kepler_id],
                 _kois |-> Unresolved]))

product(cls) ==
    IF cls = "LightCurve" THEN s_lightcurves ELSE s_target_pixel_files
suffixes(cls) ==
    IF cls = "LightCurve" THEN <<s_llc, s_slc>> ELSE <<s_lpd_targ, s_spd_targ>>
filetype(cls) == IF cls = "LightCurve" THEN s_fits ELSE s_fits_gz

\* _datafile.__init__ of LightCurve and TargetPixelFile; data_root is
\* self.api.data_root.
_datafile__init__(cls, api, params, data_root) ==
    Let(Model__init__(cls, api, params), LAMBDA m :
    Let(IF f_ktc_kepler_id \in DOMAIN params
        THEN py_int(params[f_ktc_kepler_id])
        ELSE Raise("AttributeError"), LAMBDA id :
        IF m.exc # "" THEN m
        ELSE IF id.exc # "" THEN [exc |-> id.exc, val |-> NoObject]
        ELSE
          Let(Pad(id.val.n, 9), LAMBDA kepid :
            Ok([cls |-> cls, api |-> api, params |-> params,
                _name |-> m.val._name,
                kepid |-> kepid,
                base_dir |-> path_join(<<data_root, s_data, product(cls),
                                         kepid>>),
                _filename |->
                    Lower(PyStr(params[f_sci_data_set_name]) \o <<"_">>
                            \o suffixes(cls)[
                                   IF PyEq(params[f_ktc_target_type],
                                           StrV(s_LC)) THEN 1 ELSE 2]
                            \o filetype(cls))]))))

\* _datafile.filename and _datafile.url
filename(obj) == path_join(<<obj.base_dir, obj._filename>>)
url(obj) ==
    path_join(<<s_base_url, product(obj.cls), SubSeq(obj.kepid, 1, 4),
                obj.kepid, obj._filename>>)

\* self.kepid, as get_light_curves, KOI.star and Planet.star read it: the
\* attribute that __init__ set, or else the field of the row.
HasKepid(obj) ==
    obj.cls \in {"Star"} \cup DataFiles \/ f_kepid \in DOMAIN obj.params
Kepid(obj) ==
    IF obj.cls = "Star" THEN obj.kepid
    ELSE IF obj.cls \in DataFiles THEN StrV(obj.kepid)
    ELSE obj.params[f_kepid]

----------------------------------------------------------------------------
(* The methods of API.  Each is given the response of the one request it   *)
(* sends and yields [exc, val, req]: the exception raised ("" for none),   *)
(* the records or rows returned, and the service that was asked.           *)

Result(r, req) == [exc |-> r.exc, val |-> r.val, req |-> req]
First(r) == IF r.exc # "" \/ Len(r.val) = 0 THEN r
            ELSE [r EXCEPT !.val = <<r.val[1]>>]
NotFound(r) == IF r.exc = "" /\ Len(r.val) = 0
               THEN [r EXCEPT !.exc = "ValueError"] ELSE r

\* API.kois
API_kois(g, resp) ==
    Let(ea_request(resp), LAMBDA rows :
        IF rows.exc # "" THEN Result(rows, "ea")
        ELSE Result(Collect([i \in 1..Len(rows.val) |->
                                KOI__init__(g, rows.val[i])]), "ea"))

\* API.koi: float(koi_number) is formatted before the request is sent.
API_koi(g, koi_number, resp) ==
    Let(py_float(koi_number), LAMBDA f :
        IF f.exc # "" THEN Result(RaiseL(f.exc), "")
        ELSE First(NotFound(API_kois(g, resp))))

\* API.planets
API_planets(g, resp) ==
    Let(mast_request("planet_adapter", resp), LAMBDA rows :
        IF rows.exc # "" THEN Result(rows, "mast")
        ELSE Result(Collect([i \in 1..Len(rows.val) |->
                                Planet__init__(g, rows.val[i])]), "mast"))

\* re.findall("([0-9]+)[-\s]*([a-zA-Z])", name), from position i on.
DigitsEnd(s, i) ==
    CHOOSE j \in i..(Len(s) + 1) :
        /\ \A k \in i..(j - 1) : IsDigit(s[k])
        /\ j <= Len(s) => ~IsDigit(s[j])
SepEnd(s, i) ==
    CHOOSE j \in i..(Len(s) + 1) :
        /\ \A k \in i..(j - 1) : s[k] \in {"-", " "}
        /\ j <= Len(s) => s[j] \notin {"-", " "}
RECURSIVE findall(_, _)
findall(s, i) ==
    IF i > Len(s) THEN << >>
    ELSE LET j == DigitsEnd(s, i)
             k == SepEnd(s, j)
         IN  IF j > i /\ k <= Len(s) /\ IsLetter(s[k])
             THEN <<[digits |-> SubSeq(s, i, j - 1), letter |-> s[k]]>>
                    \o findall(s, k + 1)
             ELSE findall(s, i + 1)

\* API.planet: a name that does not parse is refused before any request.
API_planet(g, name, resp) ==
    IF Len(findall(name, 1)) # 1 THEN Result(RaiseL("ValueError"), "")
    ELSE First(NotFound(API_planets(g, resp)))

\* API.stars
API_stars(g, resp) ==
    Let(mast_request("star_adapter", resp), LAMBDA rows :
        IF rows.exc # "" THEN Result(rows, "mast")
        ELSE Result(Collect([i \in 1..Len(rows.val) |->
                                Star__init__(g, rows.val[i])]), "mast"))

\* API.star
API_star(g, kepid, resp) == First(NotFound(API_stars(g, resp)))

\* API._data_search
_data_search(resp) ==
    NotFound(Result(mast_request("dataset_adapter", resp), "mast"))

\* API.light_curves and API.target_pixel_files
API_data_files(cls, g, data_root, resp) ==
    Let(_data_search(resp), LAMBDA rows :
        IF rows.exc # "" THEN rows
        ELSE Result(Collect([i \in 1..Len(rows.val) |->
                _datafile__init__(cls, g, rows.val[i], data_root)]), "mast"))
API_light_curves(g, data_root, resp) ==
    API_data_files("LightCurve", g, data_root, resp)
API_target_pixel_files(g, data_root, resp) ==
    API_data_files("TargetPixelFile", g, data_root, resp)

----------------------------------------------------------------------------
(* The local file system: the table files of the offline gateway and the   *)
(* data files, each a path.                                                *)

TableNames == {s_cumulative, s_stellar}

\* What pandas.read_csv makes of the table files below KPLR_ROOT.
CumulativeDF ==
    [t |-> "DataFrame",
     columns |-> <<f_kepoi_name, f_kepid>>,
     rows |-> <<(f_kepoi_name :> StrV(s_K00001_01)) @@ (f_kepid :> IntV(1)),
                (f_kepoi_name :> StrV(s_K00001_02)) @@ (f_kepid :> IntV(1))>>]
StellarDF ==
    [t |-> "DataFrame",
     columns |-> <<f_kepid, f_teff>>,
     rows |-> <<(f_kepid :> IntV(1)) @@ (f_teff :> IntV(5000))>>]

\* OfflineTable.filepath
filepath(name) == path_join(<<KPLR_ROOT, s_data, s_tables, name \o s_csv>>)

read_csv(path) ==
    IF path = filepath(s_cumulative) THEN CumulativeDF ELSE StellarDF

\* The light curve files that may lie below KPLR_ROOT before the first call.
LightCurveDir(root, kepid) ==
    path_join(<<root, s_data, s_lightcurves, Pad(kepid, 9)>>)
NotesFile == path_join(<<LightCurveDir(KPLR_ROOT, 1), s_readme_llc_fits>>)
LongFile == path_join(<<LightCurveDir(KPLR_ROOT, 1), s_kplr1_q1_llc_fits>>)
InitialDisks == {{NotesFile}, {NotesFile, LongFile}}

\* An enumeration of a set of paths, as glob.glob lists a directory.
RECURSIVE Listing(_)
Listing(S) ==
    IF S = {} THEN << >>
    ELSE LET f == CHOOSE x \in S : TRUE IN <<f>> \o Listing(S \ {f})

\* glob.glob(os.path.join(datadir, pattern)) for a pattern "*<tail>": the
\* star matches no name that begins with a point.
glob(files, datadir, tail) ==
    Listing({f \in files : /\ dirname(f) = datadir
                           /\ EndsWith(basename(f), tail)
                           /\ basename(f)[1] # "."})

\* re.search in f for "kplr", digits, anything and "_llc.fits": from the
\* leftmost "kplr" with a digit behind it up to the last "_llc.fits" behind them; group(1), or no match.
llc_fits == <<"_">> \o s_llc \o s_fits
Starts(f) ==
    {i \in 1..Len(f) : /\ i + 4 <= Len(f)
                       /\ SubSeq(f, i, i + 3) = s_kplr
                       /\ IsDigit(f[i + 4])}
Ends(f, i) ==
    {j \in (i + 5)..(Len(f) - Len(llc_fits) + 1) :
        SubSeq(f, j, j + Len(llc_fits) - 1) = llc_fits}
Matches(f) == {i \in Starts(f) : Ends(f, i) # {}}
Least(S) == CHOOSE x \in S : \A y \in S : x <= y
Greatest(S) == CHOOSE x \in S : \A y \in S : y <= x
re_search(f) ==
    Let(Matches(f), LAMBDA starts :
        IF starts = {} THEN [found |-> FALSE, group |-> << >>]
        ELSE [found |-> TRUE,
              group |-> SubSeq(f, Least(starts),
                               Greatest(Ends(f, Least(starts))) - 1)])

----------------------------------------------------------------------------
(* The methods of OfflineTable and OfflineAPI.  _tables is the attribute   *)
(* of the gateway: absent until the first query, then the OfflineTable of  *)
(* each name that was asked for.                                           *)

\* OfflineTable.__init__
OfflineTable__init__(name) == [name |-> name, _df |-> None]

\* OfflineTable.df without the test "self._df is None" (for comparison).
OfflineTable_df_uncached(tbl) ==
    Let(read_csv(filepath(tbl.name)), LAMBDA df :
        [tbl |-> [tbl EXCEPT !._df = df], df |-> df, read |-> TRUE])

\* OfflineTable.df: the table and the data frame, and whether the file
\* was read.
OfflineTable_df(tbl) ==
    IF tbl._df = None
    THEN Let(read_csv(filepath(tbl.name)), LAMBDA df :
             [tbl |-> [tbl EXCEPT !._df = df], df |-> df, read |-> TRUE])
    ELSE [tbl |-> tbl, df |-> tbl._df, read |-> FALSE]

\* OfflineAPI._offline_table: _tables afterwards; the table is items[name].
_offline_table(tables, name) ==
    LET t1 == IF ~tables.has THEN [has |-> TRUE, items |-> << >>] ELSE tables
    IN  IF name \notin DOMAIN t1.items
        THEN [t1 EXCEPT !.items = (name :> OfflineTable__init__(name)) @@ @]
        ELSE t1

\* DataFrame.query("<col>==<literal>")
df_query(df, query) ==
    [df EXCEPT !.rows =
        SelectSeq(@, LAMBDA r : /\ query.col \in DOMAIN r
                               /\ PyEq(r[query.col], query.val))]

\* OfflineAPI.table_query
table_query(tables, name, query) ==
    Let(_offline_table(tables, name), LAMBDA t1 :
    Let(OfflineTable_df(t1.items[name]), LAMBDA d :
        [tables |-> [t1 EXCEPT !.items[name] = d.tbl],
         df |-> df_query(d.df, query),
         loaded |-> IF d.read THEN {name} ELSE {}]))

\* {c: df[c].values[0] for c in df.columns}
FirstRow(df) == [c \in Range(df.columns) |-> df.rows[1][c]]

OfflineResult(r, q) ==
    [exc |-> r.exc, val |-> r.val, req |-> "", tables |-> q.tables,
     loaded |-> q.loaded]

\* OfflineAPI.koi
OfflineAPI_koi(api, g, koi_number) ==
    IF ~IsNumber(koi_number)
    THEN [exc |-> "ValueError", val |-> << >>, req |-> "",
          tables |-> api._tables, loaded |-> {}]
    ELSE Let(table_query(api._tables, s_cumulative,
                [col |-> f_kepoi_name,
                 val |-> StrV(<<"K">> \o Fixed2(koi_number, 8))]),
             LAMBDA q :
               IF Len(q.df.rows) = 0
               THEN OfflineResult(RaiseL("ValueError"), q)
               ELSE OfflineResult(
                       Collect(<<KOI__init__(g, FirstRow(q.df))>>), q))

\* OfflineAPI.star
OfflineAPI_star(api, g, kepid) ==
    IF ~IsNumber(kepid)
    THEN [exc |-> "ValueError", val |-> << >>, req |-> "",
          tables |-> api._tables, loaded |-> {}]
    ELSE Let(table_query(api._tables, s_stellar,
                [col |-> f_kepid,
                 val |-> IntV(DigitsValue(Fixed0(kepid)))]),
             LAMBDA q :
               IF Len(q.df.rows) = 0
               THEN OfflineResult(RaiseL("ValueError"), q)
               ELSE OfflineResult(
                       Collect(<<Star__init__(g,
                                    (f_kic_kepler_id :> kepid)
                                        @@ FirstRow(q.df))>>), q))

\* OfflineAPI.light_curves: the files found, and a LightCurve for each
\* whose name the pattern matches.
OfflineAPI_found(files, kepler_id) ==
    SelectSeq(glob(files, LightCurveDir(KPLR_ROOT, kepler_id.n), llc_fits),
              LAMBDA f : re_search(f).found)
OfflineAPI_light_curves(api, g, files, kepler_id) ==
    IF kepler_id.t # "int"
    THEN [exc |-> "ValueError", val |-> << >>, req |-> "",
          tables |-> api._tables, loaded |-> {}]
    ELSE Let(OfflineAPI_found(files, kepler_id), LAMBDA found :
         Let(Collect([i \in 1..Len(found) |->
                 _datafile__init__("LightCurve", g,
                     (f_sci_data_set_name :> StrV(re_search(found[i]).group))
                       @@ (f_ktc_target_type :> StrV(s_LC))
                       @@ (f_ktc_kepler_id :> kepler_id),
                     api.data_root)]), LAMBDA lcs :
             [exc |-> lcs.exc, val |-> lcs.val, req |-> "",
              tables |-> api._tables, loaded |-> {}]))

----------------------------------------------------------------------------
(* Method resolution: OfflineAPI overrides koi, star and light_curves and  *)
(* inherits every other method of API.                                     *)

NoResp == [code |-> 0]

Inherited(r, api, made) ==
    [exc |-> r.exc, val |-> r.val, req |-> r.req, tables |-> api._tables,
     loaded |-> {}, made |-> made, found |-> << >>]
Overridden(r, made, found) ==
    [exc |-> r.exc, val |-> r.val, req |-> r.req, tables |-> r.tables,
     loaded |-> r.loaded, made |-> made, found |-> found]

\* self.<method>(arg) on gateway g, given the response to its request.
Invoke(g, method, arg, resp) ==
    LET api == apis[g]
        off == api.cls = "OfflineAPI"
    IN  CASE method = "kois" -> Inherited(API_kois(g, resp), api, "API.kois")
          [] method = "koi" ->
                IF off
                THEN Overridden(OfflineAPI_koi(api, g, arg),
                                "OfflineAPI.koi", << >>)
                ELSE Inherited(API_koi(g, arg, resp), api, "API.koi")
          [] method = "star" ->
                IF off
                THEN Overridden(OfflineAPI_star(api, g, arg),
                                "OfflineAPI.star", << >>)
                ELSE Inherited(API_star(g, arg, resp), api, "API.star")
          [] method = "planet" ->
                Inherited(API_planet(g, arg, resp), api, "API.planet")
          [] method = "light_curves" ->
                IF off
                THEN Overridden(
                        OfflineAPI_light_curves(api, g, disk, arg.kepler_id),
                        "OfflineAPI.light_curves",
                        IF arg.kepler_id.t = "int"
                        THEN OfflineAPI_found(disk, arg.kepler_id) ELSE << >>)
                ELSE Inherited(API_light_curves(g, api.data_root, resp), api,
                               "API.light_curves")
          [] OTHER ->
                Inherited(API_target_pixel_files(g, api.data_root, resp), api,
                          "API.target_pixel_files")

\* The responses the request of self.<method>(arg) may get.
Env(g, method, arg) ==
    LET off == apis[g].cls = "OfflineAPI"
    IN  CASE method \in {"kois"} -> EAResponses
          [] method = "koi" -> IF off THEN {NoResp} ELSE EAResponses
          [] method = "star" ->
                IF off THEN {NoResp} ELSE MASTResponses("kic10", FALSE)
          [] method = "planet" -> MASTResponses("confirmed_planets", FALSE)
          [] method = "light_curves" ->
                IF off THEN {NoResp}
                ELSE MASTResponses("data_search", ~arg.short_cadence)
          [] OTHER -> MASTResponses("data_search", ~arg.short_cadence)

----------------------------------------------------------------------------
(* _datafile.fetch.                                                        *)

\* os.makedirs(path): it fails when the directory exists, and may fail
\* where it does not (outcome "EACCES": the parent is not writable).
MakedirsOutcomes(directories, path) ==
    IF path \in directories THEN {"EEXIST"} ELSE {"", "EACCES"}
makedirs(directories, path, outcome) ==
    [errno |-> outcome,
     dirs |-> IF outcome = "" THEN directories \cup {path} ELSE directories]

\* open(filename, "wb").write(...): there must be a directory to write to.
open_wb(files, directories, name) ==
    IF dirname(name) \in directories
    THEN [exc |-> "", files |-> files \cup {name}]
    ELSE [exc |-> "IOError", files |-> files]

NoFetch ==
    [exc |-> "", req |-> "", url |-> << >>, mkdir |-> "none",
     opened |-> FALSE, wrote |-> FALSE]

\* fetch without the test os.path.exists(filename) (for comparison).
fetch_unconditional(obj, clobber, files, directories, code, outcome) ==
    IF code # 200
    THEN [did |-> [NoFetch EXCEPT !.exc = "RuntimeError", !.req = "get",
                                  !.url = url(obj)],
          files |-> files, dirs |-> directories]
    ELSE Let(makedirs(directories, obj.base_dir, outcome), LAMBDA mk :
         Let(open_wb(files, mk.dirs, filename(obj)), LAMBDA wr :
             [did |-> [exc |-> wr.exc, req |-> "get", url |-> url(obj),
                       mkdir |-> mk.errno, opened |-> TRUE,
                       wrote |-> wr.exc = ""],
              files |-> wr.files, dirs |-> mk.dirs]))

\* fetch(clobber) on a data file, given the status code of the download
\* and the outcome of os.makedirs: what it did, and the files and
\* directories afterwards.
fetch(obj, clobber, files, directories, code, outcome) ==
    IF filename(obj) \in files /\ ~clobber
    THEN [did |-> NoFetch, files |-> files, dirs |-> directories]
    ELSE IF code # 200
    THEN [did |-> [NoFetch EXCEPT !.exc = "RuntimeError", !.req = "get",
                                  !.url = url(obj)],
          files |-> files, dirs |-> directories]
    ELSE Let(makedirs(directories, obj.base_dir, outcome), LAMBDA mk :
         Let(open_wb(files, mk.dirs, filename(obj)), LAMBDA wr :
             [did |-> [exc |-> wr.exc, req |-> "get", url |-> url(obj),
                       mkdir |-> mk.errno, opened |-> TRUE,
                       wrote |-> wr.exc = ""],
              files |-> wr.files, dirs |-> mk.dirs]))

----------------------------------------------------------------------------
(* The state.                                                              *)

MaxRecords == 3       \* records the caller holds
MaxQueries == 2       \* queries one record sends to resolve one slot

KoiNumbers == {FloatV(101, 100), FloatV(201, 100)}
KepIds == {IntV(1), IntV(2)}
PlanetNames == {s_Kepler_1b, s_1_b, s_bogus}
DataArgs == [kepler_id : KepIds, short_cadence : BOOLEAN]

Slots(cls) ==
    CASE cls = "Star" -> {"_kois"}
      [] cls = "KOI" -> {"_star"}
      [] cls = "Planet" -> {"_koi", "_star"}
      [] OTHER -> {}

\* A record the caller holds, and its history: the method that made it,
\* the file it was found as (OfflineAPI.light_curves), and for every slot
\* the queries sent to resolve it, those that returned, and the value the
\* first of them returned.
Entry(obj, made, found) ==
    [obj |-> obj, made |-> made, found |-> found,
     hist |-> [s \in Slots(obj.cls) |->
                 [sent |-> 0, returned |-> 0, first |-> Unresolved]]]

NoCall ==
    [op |-> "", gw |-> "", rec |-> 0, exc |-> "", ret |-> << >>,
     rows |-> << >>, req |-> "", resp |-> NoResp, loaded |-> {},
     clobber |-> FALSE, did |-> NoFetch, before |-> [was |-> FALSE]]

Init ==
    /\ \E g \in Gateways, root \in RootArgs :
          apis = (g :> API__init__(GatewayClass(g), root))
    /\ disk \in InitialDisks
    /\ dirs = {dirname(f) : f \in disk}
    /\ records = << >>
    /\ last = NoCall
    /\ munge = MungeIdle

\* The records a call returns are held behind those held so far (base).
Fresh(base, r) == [i \in 1..Len(r.val) |-> Len(base) + i]
Stored(base, r) ==
    base \o [i \in 1..Len(r.val) |->
               Entry(r.val[i], r.made,
                     IF i <= Len(r.found) THEN r.found[i] ELSE << >>)]

\* One call on gateway g, with every response its request may get.  A
\* call by the caller (rec = 0) that returns leaves the caller with the
\* records it returned, in place of those held before; what a record
\* (rec) fetches is held besides.
Outcomes(g, method, arg) ==
    {Invoke(g, method, arg, resp) : resp \in Env(g, method, arg)}
Do(op, g, rec, method, arg) ==
    \E r \in Outcomes(g, method, arg) :
        LET base == IF rec # 0 THEN records
                    ELSE IF r.exc = "" THEN << >> ELSE records
        IN  /\ Len(base) + Len(r.val) <= MaxRecords
            /\ records' = Stored(base, r)
            /\ apis' = [apis EXCEPT ![g]._tables = r.tables]
            /\ last' = [NoCall EXCEPT !.op = op, !.gw = g, !.rec = rec,
                                      !.exc = r.exc, !.ret = Fresh(base, r),
                                      !.req = r.req, !.loaded = r.loaded]
            /\ UNCHANGED <<disk, dirs, munge>>

\* A call of a method of gateway g by the caller.
Call(g, method, arg) == Do(method, g, 0, method, arg)

CallKois(g) == Call(g, "kois", None)
CallKoi(g) == \E n \in KoiNumbers : Call(g, "koi", n)
CallStar(g) == \E k \in KepIds : Call(g, "star", k)
CallPlanet(g) == \E name \in PlanetNames : Call(g, "planet", name)
CallLightCurves(g) == \E a \in DataArgs : Call(g, "light_curves", a)
CallTargetPixelFiles(g) ==
    \E a \in DataArgs : Call(g, "target_pixel_files", a)

\* API.ea_request called by the caller: rows, no records.
CallEaRequest(g) ==
    \E resp \in EAResponses : \E r \in {ea_request(resp)} :
        /\ last' = [NoCall EXCEPT !.op = "ea_request", !.gw = g,
                                  !.exc = r.exc, !.rows = r.val,
                                  !.req = "ea", !.resp = resp]
        /\ UNCHANGED <<apis, disk, dirs, records, munge>>

\* OfflineAPI.table_query called by the caller.
Queries ==
    {[col |-> f_kepid, val |-> IntV(1)], [col |-> f_kepid, val |-> IntV(2)]}
CallTableQuery(g) ==
    /\ apis[g].cls = "OfflineAPI"
    /\ \E name \in TableNames, query \in Queries :
         \E q \in {table_query(apis[g]._tables, name, query)} :
            /\ apis' = [apis EXCEPT ![g]._tables = q.tables]
            /\ last' = [NoCall EXCEPT !.op = "table_query", !.gw = g,
                                      !.rows = q.df.rows, !.loaded = q.loaded]
            /\ UNCHANGED <<disk, dirs, records, munge>>

Failed(op, g, rec, exc) ==
    /\ last' = [NoCall EXCEPT !.op = op, !.gw = g, !.rec = rec, !.exc = exc]
    /\ UNCHANGED <<apis, disk, dirs, records, munge>>

\* "if not self._kois" (for comparison): an empty list is as None.
SlotIsFalsy(obj, slot) == ~obj[slot].set \/ obj[slot].refs = << >>

\* "if self._kois is None" and its like in KOI.star, Planet.koi and
\* Planet.star.
SlotIsNone(obj, slot) == ~obj[slot].set

\* A lazy accessor of record rec: the slot when it is set, or else the
\* answer of self.api.<method>(arg), which it keeps in the slot.
Lazy(op, rec, slot, method, has_arg, arg) ==
    LET e == records[rec]
        obj == e.obj
        g == obj.api
    IN  IF ~SlotIsNone(obj, slot)
        THEN /\ last' = [NoCall EXCEPT !.op = op, !.gw = g, !.rec = rec,
                                       !.ret = obj[slot].refs]
             /\ UNCHANGED <<apis, disk, dirs, records, munge>>
        ELSE IF ~has_arg THEN Failed(op, g, rec, "AttributeError")
        ELSE
          /\ e.hist[slot].sent < MaxQueries
          /\ \E r \in Outcomes(g, method, arg) :
              LET ok == r.exc = ""
              IN  /\ Len(records) + Len(r.val) <= MaxRecords
                  /\ records' =
                       [Stored(records, r) EXCEPT
                          ![rec].obj[slot] =
                             IF ok THEN Resolved(Fresh(records, r)) ELSE @,
                          ![rec].hist[slot] =
                             [sent |-> @.sent + 1,
                              returned |-> @.returned + (IF ok THEN 1 ELSE 0),
                              first |-> IF ok /\ @.returned = 0
                                        THEN Resolved(Fresh(records, r))
                                        ELSE @.first]]
                  /\ apis' = [apis EXCEPT ![g]._tables = r.tables]
                  /\ last' = [NoCall EXCEPT !.op = op, !.gw = g, !.rec = rec,
                                            !.exc = r.exc,
                                            !.ret = Fresh(records, r),
                                            !.req = r.req,
                                            !.loaded = r.loaded]
                  /\ UNCHANGED <<disk, dirs, munge>>

Held(classes) == {r \in 1..Len(records) : records[r].obj.cls \in classes}

\* Star.kois
StarKois(r) ==
    /\ r \in Held({"Star"})
    /\ Lazy("Star.kois", r, "_kois", "kois", TRUE, None)

\* KOI.star
KoiStar(r) ==
    /\ r \in Held({"KOI"})
    /\ Lazy("KOI.star", r, "_star", "star", HasKepid(records[r].obj),
            Kepid(records[r].obj))

\* Planet.koi
PlanetKoi(r) ==
    /\ r \in Held({"Planet"})
    /\ Lazy("Planet.koi", r, "_koi", "koi",
            f_koi_number \in DOMAIN records[r].obj.params,
            records[r].obj.params[f_koi_number])

\* Planet.star
PlanetStar(r) ==
    /\ r \in Held({"Planet"})
    /\ Lazy("Planet.star", r, "_star", "star", HasKepid(records[r].obj),
            Kepid(records[r].obj))

\* Model.get_light_curves and Model.get_target_pixel_files
GetDataFiles(op, r, method) ==
    /\ r \in Held({"Star", "KOI", "Planet"})
    /\ LET obj == records[r].obj
       IN  IF ~HasKepid(obj) THEN Failed(op, obj.api, r, "AttributeError")
           ELSE \E sc \in BOOLEAN :
                   Do(op, obj.api, r, method,
                      [kepler_id |-> Kepid(obj), short_cadence |-> sc])
GetLightCurves(r) == GetDataFiles("get_light_curves", r, "light_curves")
GetTargetPixelFiles(r) ==
    GetDataFiles("get_target_pixel_files", r, "target_pixel_files")

\* _datafile.fetch
Fetch(r) ==
    /\ r \in Held(DataFiles)
    /\ LET obj == records[r].obj
       IN  \E clobber \in BOOLEAN, code \in {200, 404},
              outcome \in MakedirsOutcomes(dirs, obj.base_dir) :
             \E f \in {fetch(obj, clobber, disk, dirs, code, outcome)} :
                 /\ disk' = f.files
                 /\ dirs' = f.dirs
                 /\ last' =
                      [NoCall EXCEPT
                         !.op = "fetch", !.gw = obj.api, !.rec = r,
                         !.exc = f.did.exc, !.req = f.did.req,
                         !.ret = IF f.did.exc = "" THEN <<r>> ELSE << >>,
                         !.clobber = clobber, !.did = f.did,
                         !.before =
                            IF last.op = "fetch" /\ last.rec = r
                                 /\ ~last.clobber /\ ~clobber
                            THEN [was |-> TRUE, exc |-> last.exc,
                                  req |-> last.req]
                            ELSE [was |-> FALSE]]
                 /\ UNCHANGED <<apis, records, munge>>

\* Specification Spec: the caller calls the methods of one gateway.
Next ==
    \/ \E g \in DOMAIN apis : CallKois(g)
    \/ \E g \in DOMAIN apis : CallKoi(g)
    \/ \E g \in DOMAIN apis : CallStar(g)
    \/ \E g \in DOMAIN apis : CallPlanet(g)
    \/ \E g \in DOMAIN apis : CallLightCurves(g)
    \/ \E g \in DOMAIN apis : CallTargetPixelFiles(g)
    \/ \E g \in DOMAIN apis : CallEaRequest(g)
    \/ \E g \in DOMAIN apis : CallTableQuery(g)

Spec == Init /\ [][Next]_vars

\* A gateway with the default data_root, and the light curve of target 1
\* below it.
InitHome ==
    /\ \E g \in Gateways : apis = (g :> API__init__(GatewayClass(g), None))
    /\ disk = {NotesFile, LongFile}
    /\ dirs = {dirname(f) : f \in disk}
    /\ records = << >>
    /\ last = NoCall
    /\ munge = MungeIdle

\* Specification SpecLazy: the caller fetches a record by identity and
\* reads the related records of the records it holds.
NextLazy ==
    \/ \E g \in DOMAIN apis : CallKoi(g)
    \/ \E g \in DOMAIN apis : CallStar(g)
    \/ \E g \in DOMAIN apis : CallPlanet(g)
    \/ \E r \in 1..MaxRecords : StarKois(r)
    \/ \E r \in 1..MaxRecords : KoiStar(r)
    \/ \E r \in 1..MaxRecords : PlanetKoi(r)
    \/ \E r \in 1..MaxRecords : PlanetStar(r)

SpecLazy == InitHome /\ [][NextLazy]_vars

\* Specification SpecAccess: the caller fetches a candidate, a star or the
\* light curves of a target, and calls the accessors of what it holds.
NextAccess ==
    \/ \E g \in DOMAIN apis : CallKoi(g)
    \/ \E g \in DOMAIN apis : CallStar(g)
    \/ \E g \in DOMAIN apis : CallLightCurves(g)
    \/ \E r \in 1..MaxRecords : StarKois(r)
    \/ \E r \in 1..MaxRecords : KoiStar(r)
    \/ \E r \in 1..MaxRecords : GetLightCurves(r)
    \/ \E r \in 1..MaxRecords : GetTargetPixelFiles(r)

SpecAccess == InitHome /\ [][NextAccess]_vars

\* Specification SpecFetch: the caller locates the data files of a target
\* and fetches them.
NextFetch ==
    \/ \E g \in DOMAIN apis : CallLightCurves(g)
    \/ \E g \in DOMAIN apis : CallTargetPixelFiles(g)
    \/ \E r \in 1..MaxRecords : Fetch(r)

SpecFetch == Init /\ [][NextFetch]_vars

----------------------------------------------------------------------------
(* Specification SpecMunge.                                                *)

InitMunge ==
    /\ apis = ("remote" :> API__init__("API", None))
    /\ disk = {}
    /\ dirs = {}
    /\ records = << >>
    /\ last = NoCall
    /\ \E row \in RawRows :
          munge = [row |-> row, prev |-> row, passes |-> 0, exc |-> ""]

\* new_row = self._munge_dict(row)
Normalize ==
    /\ munge.passes < MaxPasses
    /\ munge.exc = ""
    /\ \E out \in {_munge_dict(munge.row)} :
          munge' = [row |-> IF out.exc = "" THEN out.val ELSE munge.row,
                    prev |-> munge.row,
                    passes |-> munge.passes + 1,
                    exc |-> out.exc]
    /\ UNCHANGED <<apis, disk, dirs, records, last>>

NextMunge == Normalize

SpecMunge == InitMunge /\ [][NextMunge]_vars

----------------------------------------------------------------------------
(* The properties.                                                         *)

OfflineMade ==
    {"OfflineAPI.koi", "OfflineAPI.star", "OfflineAPI.light_curves"}
Accessors ==
    {"Star.kois", "KOI.star", "get_light_curves", "get_target_pixel_files"}

\* C1: an accessor call (Star.kois, KOI.star, get_light_curves,
\* get_target_pixel_files) on a record that the offline gateway made
\* (OfflineAPI.koi, OfflineAPI.star, OfflineAPI.light_curves) issues no
\* network request.
C1_OfflineRecordsStayOffline ==
    (/\ last.op \in Accessors
     /\ records[last.rec].made \in OfflineMade) => last.req = ""

\* C2, as stated: of two successive calls of fetch() without clobber on
\* one data file at most one sends the request, and the second does
\* nothing and returns the record.
C2_SecondFetchNeverRequests ==
    last.before.was =>
        /\ ~(last.before.req # "" /\ last.req # "")
        /\ last.did = NoFetch
        /\ last.ret = <<last.rec>>

\* C2, amended: when the first of two successive calls of fetch() without
\* clobber on one data file returned, the second sends no request, makes
\* no directory, opens no file, finds the file on the disk and returns the
\* record; a first call that raised had sent its request, and the second
\* is free to send it again.
C2_SecondFetchAfterReturn ==
    last.before.was =>
        IF last.before.exc = ""
        THEN /\ last.did = NoFetch
             /\ last.exc = ""
             /\ last.ret = <<last.rec>>
             /\ filename(records[last.rec].obj) \in disk
        ELSE last.before.req = "get"

\* The first fetch downloaded and wrote the file, the second found it.
C2_Witness ==
    /\ last.before.was
    /\ last.before.exc = ""
    /\ last.before.req = "get"
    /\ last.did = NoFetch

LazyOps == {"Star.kois", "KOI.star", "Planet.koi", "Planet.star"}
SlotOf(op) ==
    CASE op = "Star.kois" -> "_kois"
      [] op = "Planet.koi" -> "_koi"
      [] OTHER -> "_star"

ByIdentity == {"koi", "star", "planet", "light_curves", "target_pixel_files"}

\* C4: on either gateway a fetch by identity (koi, star, planet,
\* light_curves, target_pixel_files) that returns has found something: a
\* fetch that matches nothing raises and never returns an empty result.
C4_ZeroResultsRaise ==
    (last.op \in ByIdentity /\ last.exc = "") => last.ret # << >>

\* C5: when os.makedirs fails in fetch() for another reason than that the
\* directory exists, fetch() raises the error of the directory creation
\* and does not open the file.
C5_MakedirsFailureSurfaces ==
    (last.op = "fetch" /\ last.did.mkdir \notin {"none", "", "EEXIST"}) =>
        /\ last.exc = "OSError"
        /\ ~last.did.opened
        /\ ~last.did.wrote

\* C6: every record that was made has the fields of its _id template,
\* and none of them is None.
C6_IdentityNotNull ==
    \A r \in 1..Len(records) :
        \A f \in IdFields(records[r].obj.cls) :
            /\ f \in DOMAIN records[r].obj.params
            /\ records[r].obj.params[f] # None

\* C7: _munge_dict returns an int, a float or None as it was given, of
\* the same type, and raises nothing; so a second pass over a row returns
\* what the first pass returned.
C7_MungeIdempotent ==
    /\ munge.passes > 0 =>
          /\ munge.exc = ""
          /\ \A k \in DOMAIN munge.prev :
                munge.prev[k].t # "str" => munge.row[k] = munge.prev[k]
    /\ munge.passes = 2 => munge.row = munge.prev

\* C8: ea_request raises when the status is not 200 and when the body
\* holds "ERROR" anywhere, and then returns no row.
C8_MarkerOrStatusFails ==
    (/\ last.op = "ea_request"
     /\ last.resp.code # 200 \/ HasMarker(last.resp.txt)) =>
        /\ last.exc = "RuntimeError"
        /\ last.rows = << >>

\* A response of status 200 that is well-formed CSV with the marker in
\* one cell was refused.
C8_Witness ==
    /\ last.op = "ea_request"
    /\ last.resp.code = 200
    /\ Len(last.resp.txt) = 2
    /\ HasMarker(last.resp.txt)
    /\ last.exc = "RuntimeError"

TableLoaded(g, name) ==
    /\ apis[g]._tables.has
    /\ name \in DOMAIN apis[g]._tables.items
    /\ apis[g]._tables.items[name]._df # None

\* C9: a call on the offline gateway reads the file of a table only if
\* the gateway has not read it before, and a table that was read stays
\* cached: no later call reads its file again.
C9_TableReadOnce ==
    [][\A g \in DOMAIN apis : \A name \in TableNames :
          /\ TableLoaded(g, name) =>
                /\ name \notin last'.loaded
                /\ TableLoaded(g, name)'
          /\ name \in last'.loaded =>
                /\ ~TableLoaded(g, name)
                /\ TableLoaded(g, name)']_vars

\* A query on a table that the gateway had read before read no file.
C9_Witness ==
    /\ last.op \in {"table_query", "koi", "star"}
    /\ apis[last.gw].cls = "OfflineAPI"
    /\ last.loaded = {}
    /\ \E name \in TableNames : TableLoaded(last.gw, name)
    /\ last.exc = ""

\* C10: a LightCurve that OfflineAPI.light_curves returned has as its
\* filename the path of the file that was found, whatever the data_root
\* of the gateway, and fetch() without clobber on it sends no request.
C10_OfflineFilenameIsFound ==
    /\ \A r \in 1..Len(records) :
          records[r].made = "OfflineAPI.light_curves" =>
              filename(records[r].obj) = records[r].found
    /\ (/\ last.op = "fetch"
        /\ ~last.clobber
        /\ records[last.rec].made = "OfflineAPI.light_curves") =>
            last.req = ""

====
